---- MODULE Spec2Model ----
(***************************************************************************)
(* Model of the asynchronous job lifecycle client of the stock-analysis    *)
(* frontend: frontend/src/App.tsx (the App component with the language     *)
(* selector, lines 279-645), frontend/src/lib/api.ts and the result view   *)
(* of frontend/src/components/AnalysisResults.tsx.                          *)
(*                                                                         *)
(* React state slots are variables.  Every run of the polling effect with  *)
(* a non-null analysisId creates one "chain": the closure holding its own  *)
(* isCancelled flag and the async function poll.  A chain is suspended at  *)
(* an await (pc "status" / "result"), on a timer (pc "timer") or finished  *)
(* (pc "done").  A step of a chain is the settling of its pending request   *)
(* together with the continuation of poll that runs on it; lastEvent keeps *)
(* what was delivered and to which chain.                                  *)
(*                                                                         *)
(* A handler's state updates, the render they cause and the cleanup and    *)
(* body of the polling effect of that render form one step: React commits  *)
(* them before the next timer or network callback runs.                    *)
(*                                                                         *)
(* Spec is the job lifecycle with the symbol input and the language        *)
(* selector; SpecForm is the same lifecycle with every form field that     *)
(* reaches the payload and a fixed language; SpecChart is the              *)
(* AnalysisResults component with its market chart                         *)
(* (frontend/src/components/PriceChart.tsx).                               *)
(* SpecFinnhub is one call of fetchStockData (frontend/src/lib/finnhub.ts)  *)
(* and SpecFormat one call of cleanMarkdown and parseReportSections        *)
(* (frontend/src/utils/formatReport.ts).                                   *)
(* SpecLive is the job lifecycle under the fairness conditions of a        *)
(* backend that answers, and SpecMarket one mount of AnalysisResults with  *)
(* the answers of the candle request.                                      *)
(*                                                                         *)
(* Non-ASCII string literals of the source are transliterated:             *)
(*   '失败' -> "shibai", '美股' -> "meigu", 'A股' -> "Agu",                *)
(*   '港股' -> "ganggu"                                                    *)
(***************************************************************************)
EXTENDS Naturals, Integers, Sequences, FiniteSets, TLC

VARIABLES
    form,            \* useState(defaultForm)
    isSubmitting,    \* useState(false)
    analysisId,      \* useState<string | null>(null); NoJob is null
    analysisStatus,  \* useState<AnalysisStatus | null>(null)
    analysisResult,  \* useState<AnalysisResult | null>(null)
    error,           \* useState<string | null>(null)
    uiLanguage,      \* useState<Language>('Chinese')
    chains,          \* the closures created by the runs of the polling effect
    submits,         \* payloads of the createAnalysis calls not settled yet
    nextJob,         \* backend: next analysis_id to hand out
    resultReqs,      \* per job id: GET /analysis/{id} requests issued
    lastEvent,       \* the event whose handler produced the current state
    props,           \* AnalysisResults: the result prop, NoProps = unmounted
    activeTab,       \* AnalysisResults: useState<TabKey>('overview')
    marketChartData, \* AnalysisResults: useState([])
    isLoadingChart,  \* AnalysisResults: useState(false)
    loadMarketData,  \* AnalysisResults: where loadMarketData() stands
    marketPane,      \* what the market tab pane renders
    candle,          \* lib/finnhub.ts: what fetch delivered to fetchStockData
    fetched,         \* lib/finnhub.ts: what fetchStockData settled to
    reportText,      \* utils/formatReport.ts: the text given to the functions
    formatted        \* utils/formatReport.ts: what the functions returned

chartVars == <<props, activeTab, marketChartData, isLoadingChart,
               loadMarketData, marketPane>>

libVars == <<candle, fetched, reportText, formatted>>

vars == <<form, isSubmitting, analysisId, analysisStatus, analysisResult,
          error, uiLanguage, chains, submits, nextJob, resultReqs,
          lastEvent, chartVars, libVars>>

slots == <<analysisStatus, analysisResult, error, isSubmitting>>

-----------------------------------------------------------------------------
(* Bounds *)

\* job ids the backend hands out
MaxJobs == 2
\* characters of a report text, for the texts taken in full
MaxLen == 4
\* lines of a report text, for the texts built from lines
MaxLines == 4
\* prices of chart points lie in -MaxPrice..MaxPrice
MaxPrice == 3
\* points of a chart series
MaxPoints == 2
\* runs of the polling effect that create a closure
MaxChains == 2

Jobs == 1..MaxJobs
NoJob == 0

-----------------------------------------------------------------------------
(* Values *)

NULL == "NULL"

pollInterval == 2000

Languages == {"Chinese", "English"}

\* translations[lang].failed
t_failed(lang) == IF lang = "Chinese" THEN "shibai" ELSE "Failed"

\* a message shown in the error banner: a literal prefix and a variable part
Msg(prefix, text) == [prefix |-> prefix, text |-> text]
NoError == Msg(NULL, NULL)

NoStatus == [id |-> NoJob, status |-> NULL, error |-> NULL]
NoResult == [id |-> NoJob, result |-> NULL]

StatusValues == {"queued", "running", "completed", "failed"}

\* bodies of GET /analysis/{id}/status: the error field is null, '' or text
StatusBodies(j) ==
    {[id |-> j, status |-> s, error |-> NULL] : s \in StatusValues}
        \cup {[id |-> j, status |-> "failed", error |-> e] : e \in {"", "boom"}}

\* result field of GET /analysis/{id}: null, {success: false}, {success: true}
ResultPayloads == {NULL, "unsuccessful", "success"}

ResultBodies(j) == {[id |-> j, result |-> r] : r \in ResultPayloads}

NoMsg == [kind |-> "none", status |-> NoStatus, result |-> NoResult,
          message |-> NoError]
StatusMsg(s) == [kind |-> "status", status |-> s, result |-> NoResult,
                 message |-> NoError]
ResultMsg(r) == [kind |-> "result", status |-> NoStatus, result |-> r,
                 message |-> NoError]
ThrowMsg(m) == [kind |-> "throw", status |-> NoStatus, result |-> NoResult,
                message |-> m]

\* texts typed into the symbol input: '', ' ', 'a' and ' a '
SymbolInputs == {<<>>, <<" ">>, <<"a">>, <<" ", "a", " ">>}

\* String.prototype.toUpperCase on the modelled alphabet
toUpperCase(s) == [i \in 1..Len(s) |-> IF s[i] = "a" THEN "A" ELSE s[i]]

defaultForm ==
    [symbol |-> <<>>, market |-> "meigu", researchDepth |-> 1,
     llmProvider |-> "google", includeRisk |-> TRUE,
     includeSentiment |-> TRUE, includeNews |-> TRUE]

\* the result prop of AnalysisResults: whether result.symbol is non-empty,
\* result.result as in ResultPayloads, whether result.result.market_report
\* is non-empty
Props(symbol, resultPayload, market_report) ==
    [mounted |-> TRUE, symbol |-> symbol, result |-> resultPayload,
     market_report |-> market_report]
NoProps ==
    [mounted |-> FALSE, symbol |-> FALSE, result |-> NULL,
     market_report |-> FALSE]

\* price: number
Prices == (0 - MaxPrice)..MaxPrice
ChartPoint(price) == [price |-> price]
\* Array<{ date: string; price: number; volume?: number }>
ChartData ==
    UNION {[1..n -> {ChartPoint(p) : p \in Prices}] : n \in 0..MaxPoints}

\* a Y-axis domain; yMin and yMax are held in twentieths of a price unit,
\* which makes the factors 0.1 and 0.05 exact; nan: both are NaN
Domain(yMin, yMax) == [nan |-> FALSE, yMin |-> yMin, yMax |-> yMax]
NaNDomain == [nan |-> TRUE, yMin |-> 0, yMax |-> 0]
NoDomain == Domain(0, 0)

\* what the market tab pane shows: nothing, the loading note, the 'no chart
\* data' note, the empty state of PriceChart, or the chart with its domain
Pane(kind, data, domain) == [kind |-> kind, data |-> data, domain |-> domain]
Hidden == Pane("hidden", <<>>, NoDomain)

\* an array member of the provider's body: the array, or no such member
Arr(items) == [present |-> TRUE, items |-> items]
MissingArr == [present |-> FALSE, items |-> <<>>]

\* what fetchStockData settled to: a promise resolved with data, or
\* rejected
Returned(data) == [called |-> TRUE, threw |-> FALSE, data |-> data]
Thrown == [called |-> TRUE, threw |-> TRUE, data |-> <<>>]
NotCalled == [called |-> FALSE, threw |-> FALSE, data |-> <<>>]

\* what cleanMarkdown and parseReportSections returned for reportText
Formatted(clean, sections) ==
    [called |-> TRUE, clean |-> clean, sections |-> sections]
NotFormatted == [called |-> FALSE, clean |-> <<>>, sections |-> <<>>]

-----------------------------------------------------------------------------
(* What the component renders *)

\* App returns the result view when analysisResult is set, else the form
ResultViewShown == analysisResult # NoResult
FormShown == ~ResultViewShown

\* <button type="submit" disabled={isSubmitting}>
SubmitEnabled == FormShown /\ ~isSubmitting

\* the symbol input carries the `required` attribute: the browser does not
\* dispatch the submit event while its value is the empty string
RequiredSatisfied(f) == f.symbol # <<>>

\* AnalysisResults: no button when result.result is null, a button otherwise
NewAnalysisOffered == ResultViewShown /\ analysisResult.result # NULL

-----------------------------------------------------------------------------
(* lib/api.ts: what the promise of each call settles to, given what the    *)
(* transport delivered: a 2xx answer with a body, a 2xx answer whose body   *)
(* is not JSON (response.json() throws a SyntaxError), a non-2xx answer,   *)
(* or a rejected fetch (network failure, TypeError 'Failed to fetch').     *)

\* the `error` member of a non-2xx body, with its typeof; NoField stands for
\* a body without the member and for a body that is not JSON
ErrorField(type, text) == [type |-> type, text |-> text]
NoField == ErrorField("undefined", "")
ErrorFields ==
    {NoField, ErrorField("string", "symbol is required"),
     ErrorField("string", ""), ErrorField("number", "42")}

Http200(body) == [kind |-> "http200", body |-> body]
Http500(errorField) == [kind |-> "http500", body |-> errorField]
NetworkDown == [kind |-> "network", body |-> NoField]
Unparsable == [kind |-> "unparsable", body |-> NoField]
NoRaw == [kind |-> "none", body |-> NoField]

getAnalysisStatus(raw) ==
    CASE raw.kind = "http200" -> StatusMsg(raw.body)
      [] raw.kind = "http500" -> ThrowMsg(Msg("Failed to fetch status: ", "500"))
      [] raw.kind = "unparsable" -> ThrowMsg(Msg("", "Unexpected token"))
      [] OTHER -> ThrowMsg(Msg("", "Failed to fetch"))

getAnalysisResult(raw) ==
    CASE raw.kind = "http200" -> ResultMsg(raw.body)
      [] raw.kind = "http500" -> ThrowMsg(Msg("Failed to fetch result: ", "500"))
      [] raw.kind = "unparsable" -> ThrowMsg(Msg("", "Unexpected token"))
      [] OTHER -> ThrowMsg(Msg("", "Failed to fetch"))

\* the body's error member is ignored
errorMessage_generic(errorPayload) == "unknown error"

\* typeof errorPayload.error === 'string' ? errorPayload.error
\*                                         : 'unknown error'
errorMessage(errorPayload) ==
    IF errorPayload.type = "string" THEN errorPayload.text
    ELSE "unknown error"

\* createAnalysis: resolves with the body, or throws 'Analysis request
\* failed: ' followed by the body's error string or 'unknown error'
createAnalysis(raw) ==
    CASE raw.kind = "http200" ->
            [ok |-> TRUE, analysis_id |-> raw.body, message |-> NoError]
      [] raw.kind = "http500" ->
            [ok |-> FALSE, analysis_id |-> NoJob,
             message |-> Msg("Analysis request failed: ",
                             errorMessage(raw.body))]
      [] raw.kind = "unparsable" ->
            [ok |-> FALSE, analysis_id |-> NoJob,
             message |-> Msg("", "Unexpected token")]
      [] OTHER ->
            [ok |-> FALSE, analysis_id |-> NoJob,
             message |-> Msg("", "Failed to fetch")]

NoReply == [ok |-> FALSE, analysis_id |-> NoJob, message |-> NoError]

-----------------------------------------------------------------------------
(* The polling effect *)

NoChain == 0

Event(kind, c, cancelled, msg, reply) ==
    [kind |-> kind, chain |-> c, cancelled |-> cancelled, msg |-> msg,
     reply |-> reply, raw |-> NoRaw]

UserEvent(kind) == Event(kind, NoChain, FALSE, NoMsg, NoReply)

\* the closure of one run of the effect; poll() is called at once and is
\* suspended in `await getAnalysisStatus(analysisId)`
\* (analysisId and t.failed are captured by the closure)
NewChain(id, lang) ==
    [job |-> id, failed |-> t_failed(lang), isCancelled |-> FALSE,
     pc |-> "status"]

\* a cleanup that forgets to set the flag
Cleanup_noflag(ch) == ch

\* the cleanup returned by the last run of the effect: isCancelled = true
Cleanup(ch) ==
    IF ch = <<>> THEN ch ELSE [ch EXCEPT ![Len(ch)].isCancelled = TRUE]

\* one run of the effect: previous cleanup, then `if (!analysisId) return`,
\* else a fresh closure
RunEffect(ch, id, lang) ==
    IF id = NoJob THEN Cleanup(ch)
    ELSE Append(Cleanup(ch), NewChain(id, lang))

\* the dependency array of the polling effect: [analysisId, t.failed]
DepsChanged(oldId, oldLang, newId, newLang) ==
    oldId # newId \/ t_failed(oldLang) # t_failed(newLang)

\* the chains after a render in which the dependencies took new values
Rerender(oldId, oldLang, newId, newLang) ==
    IF DepsChanged(oldId, oldLang, newId, newLang)
    THEN RunEffect(chains, newId, newLang)
    ELSE chains

Bump(f, j) == [f EXCEPT ![j] = @ + 1]

ChainIds == DOMAIN chains

-----------------------------------------------------------------------------
Init ==
    /\ form = defaultForm
    /\ isSubmitting = FALSE
    /\ analysisId = NoJob
    /\ analysisStatus = NoStatus
    /\ analysisResult = NoResult
    /\ error = NoError
    /\ uiLanguage = "Chinese"
    /\ chains = <<>>
    /\ submits = <<>>
    /\ nextJob = 1
    /\ resultReqs = [j \in Jobs |-> 0]
    /\ lastEvent = UserEvent("init")
    /\ props = NoProps
    /\ activeTab = "overview"
    /\ marketChartData = <<>>
    /\ isLoadingChart = FALSE
    /\ loadMarketData = "idle"
    /\ marketPane = Hidden
    /\ candle = NoRaw
    /\ fetched = NotCalled
    /\ reportText = <<>>
    /\ formatted = NotFormatted

-----------------------------------------------------------------------------
(* User actions *)

\* handleChange for the symbol input (disabled while isSubmitting)
handleChange(value) ==
    /\ UNCHANGED <<chartVars, libVars>>
    /\ FormShown /\ ~isSubmitting
    /\ form' = [form EXCEPT !.symbol = toUpperCase(value)]
    /\ lastEvent' = UserEvent("handleChange")
    /\ UNCHANGED <<isSubmitting, analysisId, analysisStatus, analysisResult,
                   error, uiLanguage, chains, submits, nextJob, resultReqs>>

\* the names of the markets, the keys of t.marketOptions: '美股', 'A股', '港股'
Markets == {"meigu", "Agu", "ganggu"}

\* the value attributes of the options of the market select, as the DOM
\* reports them in event.target.value: '美股', '1' and '2'
MarketOptionValues == {"meigu", "1", "2"}

\* handleChange for the market select: the value is stored as it is
handleChangeMarket(value) ==
    /\ UNCHANGED <<chartVars, libVars>>
    /\ FormShown /\ ~isSubmitting
    /\ form' = [form EXCEPT !.market = value]
    /\ lastEvent' = UserEvent("handleChange")
    /\ UNCHANGED <<isSubmitting, analysisId, analysisStatus, analysisResult,
                   error, uiLanguage, chains, submits, nextJob, resultReqs>>

CheckboxNames == {"includeRisk", "includeSentiment", "includeNews"}

\* handleChange for a checkbox: the field takes event.target.checked
handleChangeCheckbox(name, checked) ==
    /\ UNCHANGED <<chartVars, libVars>>
    /\ FormShown /\ ~isSubmitting
    /\ form' = [form EXCEPT ![name] = checked]
    /\ lastEvent' = UserEvent("handleChange")
    /\ UNCHANGED <<isSubmitting, analysisId, analysisStatus, analysisResult,
                   error, uiLanguage, chains, submits, nextJob, resultReqs>>

\* handleLanguageChange; the select is rendered in both views
handleLanguageChange(lang) ==
    /\ UNCHANGED <<chartVars, libVars>>
    /\ lang # uiLanguage
    /\ analysisId # NoJob => Len(chains) < MaxChains
    /\ uiLanguage' = lang
    /\ chains' = Rerender(analysisId, uiLanguage, analysisId, lang)
    /\ lastEvent' = UserEvent("handleLanguageChange")
    /\ UNCHANGED <<form, isSubmitting, analysisId, analysisStatus,
                   analysisResult, error, submits, nextJob, resultReqs>>

\* the two optional analysts are pushed under each other's toggle
analysts_swapped(f) ==
    <<"market", "fundamentals">>
        \o (IF f.includeSentiment THEN <<"news">> ELSE <<>>)
        \o (IF f.includeNews THEN <<"social">> ELSE <<>>)

\* the analysts array built by handleSubmit
analysts(f) ==
    <<"market", "fundamentals">>
        \o (IF f.includeNews THEN <<"news">> ELSE <<>>)
        \o (IF f.includeSentiment THEN <<"social">> ELSE <<>>)

payload(f) ==
    [symbol |-> f.symbol, market |-> f.market,
     research_depth |-> f.researchDepth, llm_provider |-> f.llmProvider,
     analysts |-> analysts(f), include_risk_assessment |-> f.includeRisk]

\* handleSubmit up to `await createAnalysis(...)`
handleSubmit ==
    /\ UNCHANGED <<chartVars, libVars>>
    /\ SubmitEnabled
    /\ RequiredSatisfied(form)
    /\ isSubmitting' = TRUE
    /\ error' = NoError
    /\ analysisId' = NoJob
    /\ analysisStatus' = NoStatus
    /\ analysisResult' = NoResult
    /\ submits' = Append(submits, payload(form))
    /\ chains' = Rerender(analysisId, uiLanguage, NoJob, uiLanguage)
    /\ lastEvent' = UserEvent("handleSubmit")
    /\ UNCHANGED <<form, uiLanguage, nextJob, resultReqs>>

\* handleNewAnalysis, the onNewAnalysis button of the result view
handleNewAnalysis ==
    /\ UNCHANGED <<chartVars, libVars>>
    /\ NewAnalysisOffered
    /\ analysisId' = NoJob
    /\ analysisStatus' = NoStatus
    /\ analysisResult' = NoResult
    /\ error' = NoError
    /\ form' = defaultForm
    /\ chains' = Rerender(analysisId, uiLanguage, NoJob, uiLanguage)
    /\ lastEvent' = UserEvent("handleNewAnalysis")
    /\ UNCHANGED <<isSubmitting, uiLanguage, submits, nextJob, resultReqs>>

-----------------------------------------------------------------------------
(* Continuations of the client, run when a pending request settles *)

\* the settled request is sent again
RemoveAt_resend(q, i) == q

\* the pending requests without the one that settled
RemoveAt(q, i) == SubSeq(q, 1, i - 1) \o SubSeq(q, i + 1, Len(q))

\* handleSubmit after `await createAnalysis(...)`: setAnalysisId on success
\* (the polling effect then runs), the catch block otherwise
handleSubmitSettled(i, raw, reply) ==
    /\ UNCHANGED <<chartVars, libVars>>
    /\ submits' = RemoveAt(submits, i)
    /\ lastEvent' = [Event(IF reply.ok THEN "submitOk" ELSE "submitFail",
                           NoChain, FALSE, NoMsg, reply)
                       EXCEPT !.raw = raw]
    /\ IF reply.ok
       THEN /\ analysisId' = reply.analysis_id
            /\ chains' = Rerender(analysisId, uiLanguage,
                                  reply.analysis_id, uiLanguage)
            /\ UNCHANGED <<error, isSubmitting>>
       ELSE /\ error' = reply.message
            /\ isSubmitting' = FALSE
            /\ UNCHANGED <<analysisId, chains>>
    /\ UNCHANGED <<form, analysisStatus, analysisResult, uiLanguage,
                   resultReqs>>

\* the status is stored without looking at the flag
cancelledAfterStatus_unchecked(ch) == FALSE

\* `if (isCancelled) return` after the status await
cancelledAfterStatus(ch) == ch.isCancelled

\* the result is stored without looking at the flag
cancelledAfterResult_unchecked(ch) == FALSE

\* `if (!isCancelled)` after the result await
cancelledAfterResult(ch) == ch.isCancelled

\* `if (!isCancelled)` in the catch block
cancelledInCatch(ch) == ch.isCancelled

\* the result is fetched as soon as the job is no longer queued
isCompleted_early(status) == status.status \in {"completed", "running"}

\* status.status === 'completed'
isCompleted(status) == status.status = "completed"

\* a failed job is polled like a running one
isFailed_never(status) == FALSE

\* status.status === 'failed'
isFailed(status) == status.status = "failed"

\* the error field of the response is ignored
failedMessage_generic(status, fallback) == Msg("", fallback)

\* status.error || t.failed
failedMessage(status, fallback) ==
    IF status.error # NULL /\ status.error # ""
    THEN Msg("", status.error)
    ELSE Msg("", fallback)

\* the catch block arms the timer again instead of giving up
pollCatch_retry(c, msg) ==
    /\ chains' = [chains EXCEPT ![c].pc = "timer"]
    /\ IF cancelledInCatch(chains[c])
       THEN UNCHANGED <<error, isSubmitting>>
       ELSE /\ error' = msg.message
            /\ isSubmitting' = FALSE

\* the catch block of poll
pollCatch(c, msg) ==
    /\ chains' = [chains EXCEPT ![c].pc = "done"]
    /\ IF cancelledInCatch(chains[c])
       THEN UNCHANGED <<error, isSubmitting>>
       ELSE /\ error' = msg.message
            /\ isSubmitting' = FALSE

\* poll resumes after `await getAnalysisStatus(analysisId)`
pollAfterStatus(c, msg) ==
    /\ UNCHANGED <<chartVars, libVars>>
    /\ lastEvent' = Event("status", c, chains[c].isCancelled, msg, NoReply)
    /\ IF msg.kind = "throw"
       THEN /\ pollCatch(c, msg)
            /\ UNCHANGED <<analysisStatus, resultReqs>>
       ELSE IF cancelledAfterStatus(chains[c])
       THEN /\ chains' = [chains EXCEPT ![c].pc = "done"]
            /\ UNCHANGED <<analysisStatus, error, isSubmitting, resultReqs>>
       ELSE /\ analysisStatus' = msg.status
            /\ IF isCompleted(msg.status)
               THEN /\ chains' = [chains EXCEPT ![c].pc = "result"]
                    /\ resultReqs' = Bump(resultReqs, chains[c].job)
                    /\ UNCHANGED <<error, isSubmitting>>
               ELSE IF isFailed(msg.status)
               THEN /\ error' = failedMessage(msg.status, chains[c].failed)
                    /\ isSubmitting' = FALSE
                    /\ chains' = [chains EXCEPT ![c].pc = "done"]
                    /\ UNCHANGED resultReqs
               ELSE /\ chains' = [chains EXCEPT ![c].pc = "timer"]
                    /\ UNCHANGED <<error, isSubmitting, resultReqs>>
    /\ UNCHANGED <<form, analysisId, analysisResult, uiLanguage, submits,
                   nextJob>>

\* poll resumes after `await getAnalysisResult(analysisId)`
pollAfterResult(c, msg) ==
    /\ UNCHANGED <<chartVars, libVars>>
    /\ lastEvent' = Event("result", c, chains[c].isCancelled, msg, NoReply)
    /\ IF msg.kind = "throw"
       THEN /\ pollCatch(c, msg)
            /\ UNCHANGED analysisResult
       ELSE /\ chains' = [chains EXCEPT ![c].pc = "done"]
            /\ IF cancelledAfterResult(chains[c])
               THEN UNCHANGED <<analysisResult, error, isSubmitting>>
               ELSE /\ analysisResult' = msg.result
                    /\ isSubmitting' = FALSE
                    /\ UNCHANGED error
    /\ UNCHANGED <<form, analysisId, analysisStatus, uiLanguage, submits,
                   nextJob, resultReqs>>

-----------------------------------------------------------------------------
(* Transport and timers.  Requests are never aborted and timers never      *)
(* cleared, so a cancelled chain is answered and woken like a live one.    *)

\* what the transport can deliver for a POST /analysis that does not
\* succeed
SubmitFailures ==
    {Http500(e) : e \in ErrorFields} \cup {NetworkDown, Unparsable}

\* POST /analysis is answered: 2xx with a fresh analysis_id, 2xx with a body
\* that is not JSON, non-2xx with any error body, or no answer at all
SubmitSettles(i) ==
    \/ /\ nextJob <= MaxJobs
       /\ Len(chains) < MaxChains
       /\ nextJob' = nextJob + 1
       /\ handleSubmitSettled(i, Http200(nextJob),
                              createAnalysis(Http200(nextJob)))
    \/ /\ UNCHANGED nextJob
       /\ \E raw \in SubmitFailures :
            handleSubmitSettled(i, raw, createAnalysis(raw))

\* GET /analysis/{id}/status is answered
StatusSettles(c) ==
    /\ chains[c].pc = "status"
    /\ \/ \E b \in StatusBodies(chains[c].job) :
            pollAfterStatus(c, getAnalysisStatus(Http200(b)))
       \/ \E raw \in {Http500(NoField), NetworkDown, Unparsable} :
            pollAfterStatus(c, getAnalysisStatus(raw))

\* GET /analysis/{id} is answered
ResultSettles(c) ==
    /\ chains[c].pc = "result"
    /\ \/ \E b \in ResultBodies(chains[c].job) :
            pollAfterResult(c, getAnalysisResult(Http200(b)))
       \/ \E raw \in {Http500(NoField), NetworkDown, Unparsable} :
            pollAfterResult(c, getAnalysisResult(raw))

\* the timer armed by setTimeout(poll, pollInterval) fires: poll() runs and
\* calls getAnalysisStatus before it looks at isCancelled
timerFires(c) ==
    /\ UNCHANGED <<chartVars, libVars>>
    /\ chains[c].pc = "timer"
    /\ chains' = [chains EXCEPT ![c].pc = "status"]
    /\ lastEvent' = Event("timer", c, chains[c].isCancelled, NoMsg, NoReply)
    /\ UNCHANGED <<form, isSubmitting, analysisId, analysisStatus,
                   analysisResult, error, uiLanguage, submits, nextJob,
                   resultReqs>>

-----------------------------------------------------------------------------
Next ==
    \/ \E v \in SymbolInputs : handleChange(v)
    \/ \E l \in Languages : handleLanguageChange(l)
    \/ handleSubmit
    \/ handleNewAnalysis
    \/ \E i \in DOMAIN submits : SubmitSettles(i)
    \/ \E c \in ChainIds : StatusSettles(c)
    \/ \E c \in ChainIds : ResultSettles(c)
    \/ \E c \in ChainIds : timerFires(c)

Spec == Init /\ [][Next]_vars

\* GET /analysis/{id}/status is answered with a final status
FinalStatusSettles(c) ==
    /\ c \in ChainIds
    /\ chains[c].pc = "status"
    /\ \E b \in StatusBodies(chains[c].job) :
          /\ b.status \in {"completed", "failed"}
          /\ pollAfterStatus(c, getAnalysisStatus(Http200(b)))

\* for the chain of the last run of the effect, the only one that can be
\* live: every request is answered and every timer fires (a chain waits
\* for one of them at a time), and the backend does not report queued or
\* running for ever
Fairness ==
    /\ WF_vars(/\ chains # <<>>
               /\ \/ StatusSettles(Len(chains))
                  \/ ResultSettles(Len(chains))
                  \/ timerFires(Len(chains)))
    /\ SF_vars(chains # <<>> /\ FinalStatusSettles(Len(chains)))

\* POST /analysis is answered, a failure being the network error: which
\* failure it is decides the text of error only
SubmitSettlesLive(i) ==
    \/ /\ nextJob <= MaxJobs
       /\ Len(chains) < MaxChains
       /\ nextJob' = nextJob + 1
       /\ handleSubmitSettled(i, Http200(nextJob),
                              createAnalysis(Http200(nextJob)))
    \/ /\ UNCHANGED nextJob
       /\ handleSubmitSettled(i, NetworkDown, createAnalysis(NetworkDown))

\* the job lifecycle with one symbol text and one failure of the POST
NextLive ==
    \/ handleChange(<<"a">>)
    \/ \E l \in Languages : handleLanguageChange(l)
    \/ handleSubmit
    \/ handleNewAnalysis
    \/ \E i \in DOMAIN submits : SubmitSettlesLive(i)
    \/ \E c \in ChainIds : StatusSettles(c)
    \/ \E c \in ChainIds : ResultSettles(c)
    \/ \E c \in ChainIds : timerFires(c)

SpecLive == Init /\ [][NextLive]_vars /\ Fairness

\* the form in full: every field that reaches the payload can be edited;
\* the UI language stays as it is
NextForm ==
    \/ \E v \in SymbolInputs : handleChange(v)
    \/ \E v \in MarketOptionValues : handleChangeMarket(v)
    \/ \E n \in CheckboxNames, b \in BOOLEAN : handleChangeCheckbox(n, b)
    \/ handleSubmit
    \/ handleNewAnalysis
    \/ \E i \in DOMAIN submits : SubmitSettles(i)
    \/ \E c \in ChainIds : StatusSettles(c)
    \/ \E c \in ChainIds : ResultSettles(c)
    \/ \E c \in ChainIds : timerFires(c)

SpecForm == Init /\ [][NextForm]_vars

-----------------------------------------------------------------------------
(* components/PriceChart.tsx: the Y-axis domain.  Prices are integers and  *)
(* every derived quantity is held in twentieths of a price unit; the       *)
(* rounding of floating-point arithmetic is not modelled.                  *)

Math_max(a, b) == IF a >= b THEN a ELSE b

\* Math.min(...prices) and Math.max(...prices) of a non-empty array
minPrice(prices) ==
    CHOOSE m \in {prices[i] : i \in DOMAIN prices} :
        \A i \in DOMAIN prices : m <= prices[i]
maxPrice(prices) ==
    CHOOSE m \in {prices[i] : i \in DOMAIN prices} :
        \A i \in DOMAIN prices : m >= prices[i]

\* only a tenth of the range is added
padding_rangeOnly(priceRange, min) == 2 * priceRange

\* Math.max(priceRange * 0.1, minPrice * 0.05), in twentieths
padding(priceRange, min) == Math_max(2 * priceRange, min)

\* the lower end is not floored
floorAtZero_none(y) == y

\* Math.max(0, minPrice - padding)
floorAtZero(y) == Math_max(0, y)

\* lines 25-33 of PriceChart; with no price Math.min() is Infinity and
\* Math.max() is -Infinity, and yMin and yMax come out NaN
yDomain(data) ==
    IF data = <<>> THEN NaNDomain
    ELSE LET prices == [i \in DOMAIN data |-> data[i].price]
             priceRange == maxPrice(prices) - minPrice(prices)
             pad == padding(priceRange, minPrice(prices))
         IN Domain(floorAtZero(20 * minPrice(prices) - pad),
                   20 * maxPrice(prices) + pad)

\* every array is taken to hold points
hasPoints_always(data) == TRUE

\* data.length > 0
hasPoints(data) == Len(data) > 0

\* PriceChart: the empty state for `!data || data.length === 0`, the chart
\* otherwise
PriceChart(data) ==
    IF ~hasPoints(data) THEN Pane("chart-empty", data, NoDomain)
    ELSE Pane("chart", data, yDomain(data))

-----------------------------------------------------------------------------
(* components/AnalysisResults.tsx: the market tab and its chart data *)

\* the tabs are rendered for a successful result only
TabsShown(p) == p.mounted /\ p.result = "success"

\* {activeTab === 'market' && data.market_report && (...)}
MarketPane(p, tab, loading, data) ==
    IF ~(TabsShown(p) /\ tab = "market" /\ p.market_report) THEN Hidden
    ELSE IF loading THEN Pane("loading", <<>>, NoDomain)
    ELSE IF hasPoints(data) THEN PriceChart(data)
    ELSE Pane("noChartData", <<>>, NoDomain)

Render ==
    marketPane' = MarketPane(props', activeTab', isLoadingChart',
                             marketChartData')

appVars == <<form, isSubmitting, analysisId, analysisStatus, analysisResult,
             error, uiLanguage, chains, submits, nextJob, resultReqs,
             lastEvent>>

\* App renders <AnalysisResults result={analysisResult} .../>: the state
\* is initialised and the effect calls loadMarketData(), which returns at
\* once without a symbol and else sets isLoadingChart and awaits
\* fetchStockData
mount(symbol, resultPayload, market_report) ==
    /\ ~props.mounted
    /\ props' = Props(symbol, resultPayload, market_report)
    /\ activeTab' = "overview"
    /\ marketChartData' = <<>>
    /\ isLoadingChart' = symbol
    /\ loadMarketData' = IF symbol THEN "await" ELSE "idle"
    /\ Render
    /\ UNCHANGED <<appVars, libVars>>

\* onClick={() => tab.hasData !== false && setActiveTab(tab.key)}
setActiveTab(tab) ==
    /\ TabsShown(props)
    /\ tab = "market" => props.market_report
    /\ activeTab' = tab
    /\ UNCHANGED <<props, marketChartData, isLoadingChart, loadMarketData>>
    /\ Render
    /\ UNCHANGED <<appVars, libVars>>

\* `await fetchStockData(result.symbol, 30)` resolves: setMarketChartData
\* (fetchStockData resolves to [] for every failure; the catch block would
\* store [] as well)
fetchStockDataSettles(data) ==
    /\ loadMarketData = "await"
    /\ marketChartData' = data
    /\ loadMarketData' = "finally"
    /\ UNCHANGED <<props, activeTab, isLoadingChart>>
    /\ Render
    /\ UNCHANGED <<appVars, libVars>>

\* the finally block: setIsLoadingChart(false)
loadMarketDataFinally ==
    /\ loadMarketData = "finally"
    /\ isLoadingChart' = FALSE
    /\ loadMarketData' = "idle"
    /\ UNCHANGED <<props, activeTab, marketChartData>>
    /\ Render
    /\ UNCHANGED <<appVars, libVars>>

\* App stops rendering AnalysisResults (onNewAnalysis): the state of the
\* component is dropped, and so is what a pending loadMarketData sets
unmount ==
    /\ props.mounted
    /\ props' = NoProps
    /\ activeTab' = "overview"
    /\ marketChartData' = <<>>
    /\ isLoadingChart' = FALSE
    /\ loadMarketData' = "idle"
    /\ Render
    /\ UNCHANGED <<appVars, libVars>>

NextChart ==
    \/ \E s \in BOOLEAN, r \in ResultPayloads, m \in BOOLEAN : mount(s, r, m)
    \/ \E tab \in {"overview", "market"} : setActiveTab(tab)
    \/ \E data \in ChartData : fetchStockDataSettles(data)
    \/ loadMarketDataFinally
    \/ unmount

SpecChart == Init /\ [][NextChart]_vars

-----------------------------------------------------------------------------
(* lib/finnhub.ts: fetchStockData.  The body of a 2xx answer is the        *)
(* provider's candle object: the status s and the parallel arrays c        *)
(* (closing prices), t (UNIX timestamps in seconds) and v (volumes), each  *)
(* of which may be absent or shorter than c.  Timestamps are taken within  *)
(* the range a Date can hold.                                              *)

SecondsPerDay == 86400

\* closing prices, timestamps (the first and the last second of day 0, the
\* first second of day 1) and volumes
ClosePrices == 1..MaxPrice
Timestamps == {0, SecondsPerDay - 1, SecondsPerDay}
Volumes == {0, 5}

SeqsUpTo(S, n) == UNION {[1..k -> S] : k \in 0..n}
Arrays(S) == {MissingArr} \cup {Arr(q) : q \in SeqsUpTo(S, MaxPoints)}

\* the bodies the provider can answer with
FinnhubCandles ==
    [s : {"ok", "no_data"}, c : Arrays(ClosePrices), t : Arrays(Timestamps),
     v : Arrays(Volumes)]

\* new Date(t * 1000).toISOString().split('T')[0]: the calendar day (UTC)
\* of the timestamp, held as the number of the day since 1970-01-01
isoDate(t) == t \div SecondsPerDay

\* the status flag is not looked at
noData_anyStatus(data) == ~data.c.present \/ Len(data.c.items) = 0

\* data.s !== 'ok' || !data.c || data.c.length === 0
noData(data) ==
    data.s # "ok" \/ ~data.c.present \/ Len(data.c.items) = 0

\* iteration i of the conversion loop throws: data.t[i] of an absent t
\* (TypeError), toISOString() of the invalid date of an undefined data.t[i]
\* (RangeError), data.v[i] of an absent v (TypeError)
iterationThrows(data, i) ==
    ~data.t.present \/ i > Len(data.t.items) \/ ~data.v.present

\* every point is given the date of the first candle
chartPoint_firstDate(data, i) ==
    [date |-> isoDate(data.t.items[1]),
     price |-> data.c.items[i],
     volume |-> IF i <= Len(data.v.items) THEN <<data.v.items[i]>>
                ELSE <<>>]

\* the point pushed by iteration i; volume is <<>> for undefined
chartPoint(data, i) ==
    [date |-> isoDate(data.t.items[i]),
     price |-> data.c.items[i],
     volume |-> IF i <= Len(data.v.items) THEN <<data.v.items[i]>>
                ELSE <<>>]

\* the try block: lines 36-67
tryFetch(raw) ==
    IF raw.kind # "http200" THEN Thrown
    ELSE IF noData(raw.body) THEN Returned(<<>>)
    ELSE IF \E i \in 1..Len(raw.body.c.items) : iterationThrows(raw.body, i)
    THEN Thrown
    ELSE Returned([i \in 1..Len(raw.body.c.items) |->
                     chartPoint(raw.body, i)])

\* what is thrown in the try block reaches the caller
fetchStockData_rethrow(raw) == tryFetch(raw)

\* fetchStockData: the catch block returns [] for whatever was thrown
fetchStockData(raw) ==
    IF tryFetch(raw).threw THEN Returned(<<>>) ELSE tryFetch(raw)

\* what fetch can deliver for the candle request
CandleAnswers ==
    {Http200(b) : b \in FinnhubCandles}
        \cup {Http500(NoField), NetworkDown, Unparsable}

\* one call of fetchStockData, answered with raw
fetchStockDataCalled(raw) ==
    /\ candle' = raw
    /\ fetched' = fetchStockData(raw)
    /\ UNCHANGED <<appVars, chartVars, reportText, formatted>>

\* the function is called once
NextFinnhub ==
    /\ ~fetched.called
    /\ \E raw \in CandleAnswers : fetchStockDataCalled(raw)

SpecFinnhub == Init /\ [][NextFinnhub]_vars

\* loadMarketData resumes after `await fetchStockData(result.symbol, 30)`,
\* the candle request being answered with raw: setMarketChartData(data) in
\* the try block, setMarketChartData([]) in the catch block
loadMarketDataResumes(raw) ==
    /\ loadMarketData = "await"
    /\ candle' = raw
    /\ fetched' = fetchStockData(raw)
    /\ marketChartData' = IF fetchStockData(raw).threw THEN <<>>
                          ELSE fetchStockData(raw).data
    /\ loadMarketData' = "finally"
    /\ UNCHANGED <<props, activeTab, isLoadingChart>>
    /\ Render
    /\ UNCHANGED <<appVars, reportText, formatted>>

\* one mount of AnalysisResults with a successful result and its fetch of
\* the market data
NextMarket ==
    \/ \E symbol \in BOOLEAN : mount(symbol, "success", TRUE)
    \/ /\ loadMarketData = "await"
       /\ \E raw \in CandleAnswers : loadMarketDataResumes(raw)
    \/ loadMarketDataFinally

SpecMarket == Init /\ [][NextMarket]_vars

-----------------------------------------------------------------------------
(* utils/formatReport.ts.  A text is a sequence of characters; the         *)
(* alphabet holds the characters the regular expressions tell apart: the   *)
(* markers '#', '*', '_' and '-', the white space ' ' and '\n', and the     *)
(* letter 'a' for everything else ('b' is a second title).                 *)

Whitespace == {" ", "\n"}
RuleChars == {"-", "_", "*"}
Chars == {"#", "*", "_", "-", " ", "\n", "a"}

\* the number of consecutive characters of s from position i that lie in S
RECURSIVE runLen(_, _, _)
runLen(s, i, S) ==
    IF i > Len(s) \/ s[i] \notin S THEN 0 ELSE 1 + runLen(s, i + 1, S)

\* `(.*?)` followed by n characters m, tried from position j: the position
\* of the closing marker, or 0 when a line end or the end of s comes first
RECURSIVE closeAt(_, _, _, _)
closeAt(s, j, m, n) ==
    IF j + n - 1 > Len(s) THEN 0
    ELSE IF \A d \in 0..(n - 1) : s[j + d] = m THEN j
    ELSE IF s[j] = "\n" THEN 0
    ELSE closeAt(s, j + 1, m, n)

NoMatch == [len |-> 0, out |-> <<>>]

\* the match of `m{n}(.*?)m{n}` at position i, replaced by '$1'
pairAt(s, i, m, n) ==
    IF i + n - 1 <= Len(s) /\ (\A d \in 0..(n - 1) : s[i + d] = m)
                          /\ closeAt(s, i + n, m, n) > 0
    THEN LET k == closeAt(s, i + n, m, n)
         IN [len |-> k + n - i, out |-> SubSeq(s, i + n, k - 1)]
    ELSE NoMatch

\* the match of a regular expression of cleanMarkdown at position i of s,
\* with its replacement; ^ and $ carry the m flag
matchAt(regex, s, i) ==
    LET lineStart == i = 1 \/ s[i - 1] = "\n"
        h == runLen(s, i, {"#"})
        w == runLen(s, i + h, Whitespace)
        r == runLen(s, i, RuleChars)
        nl == runLen(s, i, {"\n"})
    IN CASE regex = "^#{1,6}\\s+" ->
              IF lineStart /\ h >= 1 /\ h <= 6 /\ w >= 1
              THEN [len |-> h + w, out |-> <<>>] ELSE NoMatch
         [] regex = "\\*\\*(.*?)\\*\\*" -> pairAt(s, i, "*", 2)
         [] regex = "__(.*?)__" -> pairAt(s, i, "_", 2)
         [] regex = "\\*(.*?)\\*" -> pairAt(s, i, "*", 1)
         [] regex = "_(.*?)_" -> pairAt(s, i, "_", 1)
         [] regex = "^[\\-_*]{3,}$" ->
              IF lineStart /\ r >= 3 /\ (i + r > Len(s) \/ s[i + r] = "\n")
              THEN [len |-> r, out |-> <<>>] ELSE NoMatch
         [] regex = "\\n{3,}" ->
              IF nl >= 3 THEN [len |-> nl, out |-> <<"\n", "\n">>]
              ELSE NoMatch

\* String.prototype.replace with a global regular expression, from
\* position i on: matches are looked for left to right in s, each search
\* starting where the previous match ended
RECURSIVE replace(_, _, _)
replace(regex, s, i) ==
    IF i > Len(s) THEN <<>>
    ELSE LET m == matchAt(regex, s, i)
         IN IF m.len > 0 THEN m.out \o replace(regex, s, i + m.len)
            ELSE <<s[i]>> \o replace(regex, s, i + 1)

\* String.prototype.trim
trim(s) ==
    LET lead == runLen(s, 1, Whitespace)
        last == IF \A i \in DOMAIN s : s[i] \in Whitespace THEN 0
                ELSE CHOOSE i \in DOMAIN s :
                       /\ s[i] \notin Whitespace
                       /\ \A j \in (i + 1)..Len(s) : s[j] \in Whitespace
    IN SubSeq(s, lead + 1, last)

cleanMarkdown(text) ==
    IF text = <<>> THEN <<>>
    ELSE LET s1 == replace("^#{1,6}\\s+", text, 1)
             s2 == replace("\\*\\*(.*?)\\*\\*", s1, 1)
             s3 == replace("__(.*?)__", s2, 1)
             s4 == replace("\\*(.*?)\\*", s3, 1)
             s5 == replace("_(.*?)_", s4, 1)
             s6 == replace("^[\\-_*]{3,}$", s5, 1)
             s7 == replace("\\n{3,}", s6, 1)
         IN trim(s7)

\* text.split('\n')
RECURSIVE split(_)
split(s) ==
    IF \A i \in DOMAIN s : s[i] # "\n" THEN <<s>>
    ELSE LET k == CHOOSE i \in DOMAIN s :
                    s[i] = "\n" /\ \A j \in 1..(i - 1) : s[j] # "\n"
         IN <<SubSeq(s, 1, k - 1)>> \o split(SubSeq(s, k + 1, Len(s)))

\* line.match(/^#{1,6}\s+(.+)$/): whether the line is a section header,
\* and headerMatch[1].trim(); a line holds no '\n'
headerMatch(line) ==
    LET h == runLen(line, 1, {"#"})
        w == runLen(line, h + 1, Whitespace)
    IN IF h >= 1 /\ h <= 6 /\ w >= 1 /\ Len(line) >= h + 2
       THEN [matched |-> TRUE,
             title |-> trim(IF h + w < Len(line)
                            THEN SubSeq(line, h + w + 1, Len(line))
                            ELSE <<line[Len(line)]>>)]
       ELSE [matched |-> FALSE, title |-> <<>>]

\* a section is open before the first header
NoSection_preamble == [open |-> TRUE, title |-> <<>>, content |-> <<>>]

\* currentSection: null, or the section that is being filled
NoSection == [open |-> FALSE, title |-> <<>>, content |-> <<>>]

\* the content is stored as it was gathered
pushSection_raw(sections, currentSection) ==
    IF currentSection.open
    THEN Append(sections,
                [title |-> currentSection.title,
                 content |-> currentSection.content])
    ELSE sections

\* sections.push({...currentSection,
\*                content: cleanMarkdown(currentSection.content).trim()})
pushSection(sections, currentSection) ==
    IF currentSection.open
    THEN Append(sections,
                [title |-> currentSection.title,
                 content |-> trim(cleanMarkdown(currentSection.content))])
    ELSE sections

\* the loop over the lines from line k on, and the push of the last section
RECURSIVE scanLines(_, _, _, _)
scanLines(lines, k, sections, currentSection) ==
    IF k > Len(lines) THEN pushSection(sections, currentSection)
    ELSE IF headerMatch(lines[k]).matched
    THEN scanLines(lines, k + 1, pushSection(sections, currentSection),
                   [open |-> TRUE, title |-> headerMatch(lines[k]).title,
                    content |-> <<>>])
    ELSE IF currentSection.open
    THEN scanLines(lines, k + 1, sections,
                   [currentSection EXCEPT
                      !.content = @ \o lines[k] \o <<"\n">>])
    ELSE scanLines(lines, k + 1, sections, currentSection)

\* the sections are returned without the filter
parseReportSections_unfiltered(text) ==
    IF text = <<>> THEN <<>>
    ELSE scanLines(split(text), 1, <<>>, NoSection)

parseReportSections(text) ==
    IF text = <<>> THEN <<>>
    ELSE SelectSeq(scanLines(split(text), 1, <<>>, NoSection),
                   LAMBDA sec : Len(sec.content) > 0)

\* the lines the texts of several lines are built from: '', ' ', 'a', '**',
\* '# a', '## b', '# ' and '#  '
ReportLines ==
    {<<>>, <<" ">>, <<"a">>, <<"*", "*">>, <<"#", " ", "a">>,
     <<"#", "#", " ", "b">>, <<"#", " ">>, <<"#", " ", " ">>}

\* lines.join('\n')
RECURSIVE join(_)
join(lines) ==
    IF Len(lines) = 0 THEN <<>>
    ELSE IF Len(lines) = 1 THEN lines[1]
    ELSE lines[1] \o <<"\n">> \o join(Tail(lines))

\* the texts the functions are applied to: every text of up to MaxLen
\* characters, and every text of up to MaxLines of the lines above
ReportTexts ==
    SeqsUpTo(Chars, MaxLen)
        \cup {join(ls) : ls \in SeqsUpTo(ReportLines, MaxLines)}

\* one call of cleanMarkdown and of parseReportSections on the same text
formatReport(text) ==
    /\ reportText' = text
    /\ formatted' = Formatted(cleanMarkdown(text), parseReportSections(text))
    /\ UNCHANGED <<appVars, chartVars, candle, fetched>>

\* the functions are called once
NextFormat ==
    /\ ~formatted.called
    /\ \E text \in ReportTexts : formatReport(text)

SpecFormat == Init /\ [][NextFormat]_vars

-----------------------------------------------------------------------------
(* Events, as recorded in lastEvent *)

\* a request of a chain settled and the continuation of poll ran on it
ChainSettled(e) == e.kind \in {"status", "result"}

\* the continuation received a value (not an exception)
Delivered(e) == ChainSettled(e) /\ e.msg.kind # "throw"

\* the job of the current session has reached a terminal poller state
JobCompleted == analysisId # NoJob /\ analysisResult # NoResult
JobFailed == analysisId # NoJob /\ error # NoError /\ ~isSubmitting

-----------------------------------------------------------------------------
(* C1: once the poller of the current job is Completed (result stored) or  *)
(* Failed (error surfaced, isSubmitting reset), or a chain is Cancelled,   *)
(* no later event of a chain of that job - a timer firing, a status or     *)
(* result response resolving, also of a chain started by the effect        *)
(* running again - changes analysisStatus, analysisResult, error or        *)
(* isSubmitting.                                                           *)
C1_TerminalAbsorbing ==
    [][((ChainSettled(lastEvent') \/ lastEvent'.kind = "timer")
          /\ (lastEvent'.cancelled \/ JobCompleted \/ JobFailed))
        => UNCHANGED slots]_vars

(* C2: a status response, result response or request error of a cancelled  *)
(* chain leaves analysisStatus, analysisResult, error and isSubmitting     *)
(* unchanged; a chain that does write them is live and belongs to the job  *)
(* held in analysisId.                                                     *)
C2_CancelledChainWritesNothing ==
    [][ChainSettled(lastEvent')
        => /\ lastEvent'.cancelled => UNCHANGED slots
           /\ slots' # slots
                => /\ ~lastEvent'.cancelled
                   /\ chains[lastEvent'.chain].job = analysisId]_vars

\* a response of the chain of a job was discarded after the user had started
\* a new analysis
C2_Witness ==
    /\ Delivered(lastEvent)
    /\ lastEvent.cancelled
    /\ chains[lastEvent.chain].job # analysisId

(* C3: for every job id the number of result requests issued never exceeds *)
(* one.                                                                    *)
C3_ResultRequestedOnce == \A j \in Jobs : resultReqs[j] <= 1

(* C4: a result request for job J is issued only in the step in which a    *)
(* live chain of J receives a status response with status 'completed'.     *)
C4_ResultOnlyAfterCompleted ==
    [][\A j \in Jobs :
         resultReqs'[j] # resultReqs[j]
           => /\ lastEvent'.kind = "status"
              /\ ~lastEvent'.cancelled
              /\ lastEvent'.msg.kind = "status"
              /\ lastEvent'.msg.status.status = "completed"
              /\ lastEvent'.msg.status.id = j
              /\ chains[lastEvent'.chain].job = j
              /\ analysisStatus' = lastEvent'.msg.status]_vars

C4_Witness ==
    /\ lastEvent.kind = "status"
    /\ lastEvent.msg.status.status = "completed"
    /\ chains[lastEvent.chain].pc = "result"
    /\ resultReqs[chains[lastEvent.chain].job] = 1

(* C5: every POST /analysis request carries a symbol that is non-empty     *)
(* after trimming.                                                         *)
C5_NoPostForBlankSymbol ==
    \A i \in DOMAIN submits :
        \E k \in DOMAIN submits[i].symbol : submits[i].symbol[k] # " "

(* C6: for every job id at most one status request is in flight or armed   *)
(* on a timer.                                                             *)
C6_StatusChecksSequential ==
    \A j \in Jobs :
        Cardinality({c \in ChainIds : /\ chains[c].job = j
                                      /\ chains[c].pc \in {"status", "timer"}})
            <= 1

(* C7: a cancelled chain issues no further status request: it never moves  *)
(* from another position to waiting for a status response.                 *)
C7_NoRequestAfterCancel ==
    [][\A c \in ChainIds :
         (chains[c].isCancelled /\ chains[c].pc # "status")
           => chains'[c].pc # "status"]_vars

(* C8: at most one chain is not cancelled, and that chain polls the job id *)
(* held in analysisId.                                                     *)
C8_OneLiveChain ==
    /\ Cardinality({c \in ChainIds : ~chains[c].isCancelled}) <= 1
    /\ \A c \in ChainIds : ~chains[c].isCancelled => chains[c].job = analysisId

\* the chain of the prior job is cancelled, the chain of the new job is live
C8_Witness ==
    /\ Len(chains) = 2
    /\ chains[1].isCancelled
    /\ ~chains[2].isCancelled
    /\ chains[1].job # chains[2].job
    /\ chains[2].job = analysisId

\* a failure has just been handled: a submission error, a transport error of
\* a live chain, a job reported failed, or a result without a successful
\* payload
FailureHandled ==
    \/ lastEvent.kind = "submitFail"
    \/ /\ ChainSettled(lastEvent)
       /\ ~lastEvent.cancelled
       /\ \/ lastEvent.msg.kind = "throw"
          \/ /\ lastEvent.msg.kind = "status"
             /\ lastEvent.msg.status.status = "failed"
          \/ /\ lastEvent.msg.kind = "result"
             /\ lastEvent.msg.result.result \in {NULL, "unsuccessful"}

(* C9: the state every failure resolves to permits a new submission: the   *)
(* submit form is enabled or the 'new analysis' button is offered.         *)
C9_FailurePermitsNewSubmission ==
    FailureHandled => (SubmitEnabled \/ NewAnalysisOffered)

(* C10: when a live chain receives status 'failed', error is the           *)
(* response's error field when that is a non-empty string and the fallback *)
(* t.failed otherwise, isSubmitting is false, and the chain is finished    *)
(* (no timer armed, no result request pending).                            *)
C10_FailedStatus ==
    (/\ lastEvent.kind = "status"
     /\ ~lastEvent.cancelled
     /\ lastEvent.msg.kind = "status"
     /\ lastEvent.msg.status.status = "failed")
      => /\ error = (IF lastEvent.msg.status.error \in {NULL, ""}
                     THEN Msg("", t_failed(uiLanguage))
                     ELSE Msg("", lastEvent.msg.status.error))
         /\ ~isSubmitting
         /\ analysisStatus = lastEvent.msg.status
         /\ chains[lastEvent.chain].pc = "done"

C10_Witness ==
    /\ lastEvent.kind = "status"
    /\ ~lastEvent.cancelled
    /\ lastEvent.msg.status.status = "failed"
    /\ lastEvent.msg.status.error = "boom"
    /\ error = Msg("", "boom")

\* a status request of a live chain has just failed
StatusRequestFailed ==
    /\ lastEvent.kind = "status"
    /\ ~lastEvent.cancelled
    /\ lastEvent.msg.kind = "throw"

(* C11: when a status request of a live chain fails (non-2xx, network or   *)
(* parse error), error holds the message of the failure, isSubmitting is   *)
(* false and the chain is finished: it has no timer armed and no request   *)
(* pending, and a finished chain never issues a request again.             *)
C11_StatusFailureNoRetry ==
    [][/\ StatusRequestFailed'
          => /\ error' = lastEvent'.msg.message
             /\ error' # NoError
             /\ ~isSubmitting'
             /\ chains'[lastEvent'.chain].pc = "done"
       /\ \A c \in ChainIds :
            chains[c].pc = "done" => chains'[c].pc = "done"]_vars

\* the body of a 2xx status response could not be parsed
C11_Witness ==
    /\ StatusRequestFailed
    /\ error = Msg("", "Unexpected token")
    /\ ~isSubmitting
    /\ chains[lastEvent.chain].pc = "done"

\* fetching the result of a completed job has just failed on a live chain
ResultRequestFailed ==
    /\ lastEvent.kind = "result"
    /\ ~lastEvent.cancelled
    /\ lastEvent.msg.kind = "throw"

\* the messages a backend-reported job failure is surfaced with
JobFailureMessages ==
    {failedMessage(b, t_failed(l)) :
        b \in UNION {StatusBodies(j) : j \in Jobs}, l \in Languages}

(* C12: when fetching the result of a completed job fails on a live chain, *)
(* error holds the message of the fetch failure, which is none of the      *)
(* messages of a job reported failed; the job is still shown completed,    *)
(* isSubmitting is false, analysisResult is null, and the chain is         *)
(* finished, so it issues no further status or result request.             *)
C12_ResultFailureNoRetry ==
    ResultRequestFailed
      => /\ error = lastEvent.msg.message
         /\ error \notin JobFailureMessages
         /\ analysisStatus.status = "completed"
         /\ ~isSubmitting
         /\ analysisResult = NoResult
         /\ chains[lastEvent.chain].pc = "done"

\* a submission has just failed
SubmissionFailed == lastEvent.kind = "submitFail"

(* C13: a failed submission sets error to 'Analysis request failed: '      *)
(* followed by the error member of the response body when the backend      *)
(* answers non-2xx and that member is a string, and followed by 'unknown   *)
(* error' when it answers non-2xx otherwise; when the call itself fails,   *)
(* error is the message of that failure.  Afterwards error is non-null,    *)
(* isSubmitting is false, analysisId is null and no chain is live.         *)
C13_SubmissionError ==
    SubmissionFailed
      => /\ lastEvent.raw.kind = "http500"
              => error = Msg("Analysis request failed: ",
                             IF lastEvent.raw.body.type = "string"
                             THEN lastEvent.raw.body.text
                             ELSE "unknown error")
         /\ lastEvent.raw.kind = "network"
              => error = Msg("", "Failed to fetch")
         /\ error # NoError
         /\ ~isSubmitting
         /\ analysisId = NoJob
         /\ \A c \in ChainIds : chains[c].isCancelled

\* the backend rejected the request with a message of its own
C13_Witness ==
    /\ SubmissionFailed
    /\ lastEvent.raw = Http500(ErrorField("string", "symbol is required"))
    /\ error = Msg("Analysis request failed: ", "symbol is required")
    /\ ~isSubmitting
    /\ analysisId = NoJob

(* C14: each accepted submit issues exactly one POST /analysis: a request  *)
(* is issued only by a handleSubmit, which issues one; at most one is      *)
(* pending; a submission that fails is not sent again and no chain issues  *)
(* a status request in that step.                                          *)
C14_OnePostPerSubmit ==
    [][/\ Len(submits') > Len(submits) => lastEvent'.kind = "handleSubmit"
       /\ lastEvent'.kind = "handleSubmit"
            => /\ Len(submits) = 0
               /\ submits' = <<payload(form)>>
       /\ Len(submits') <= 1
       /\ SubmissionFailed'
            => /\ Len(submits) = 1
               /\ submits' = <<>>
               /\ chains' = chains
               /\ \A c \in ChainIds : chains'[c].isCancelled]_vars

\* a submission has failed and nothing is pending afterwards
C14_Witness ==
    /\ SubmissionFailed
    /\ submits = <<>>
    /\ nextJob > 1
    /\ \A c \in ChainIds : chains[c].isCancelled

(* C15: the market of every POST /analysis payload is one of the three     *)
(* market names the form offers, whatever the user selected.               *)
C15_MarketEnumerated ==
    \A i \in DOMAIN submits : submits[i].market \in Markets

(* C16: the analysts list of every POST /analysis payload has no repeated  *)
(* entry and holds 'market', 'fundamentals', 'news' exactly when           *)
(* includeNews is set, 'social' exactly when includeSentiment is set, and  *)
(* nothing else, whatever includeRisk is.                                  *)
C16_AnalystsFromToggles ==
    \A i \in DOMAIN submits :
        LET a == submits[i].analysts
            members == {a[k] : k \in DOMAIN a}
        IN /\ Len(a) = Cardinality(members)
           /\ members = {"market", "fundamentals"}
                          \cup (IF form.includeNews THEN {"news"} ELSE {})
                          \cup (IF form.includeSentiment THEN {"social"}
                                ELSE {})

\* a submit with news switched off, sentiment on and risk off
C16_Witness ==
    /\ Len(submits) = 1
    /\ ~form.includeNews /\ form.includeSentiment /\ ~form.includeRisk
    /\ submits[1].analysts = <<"market", "fundamentals", "social">>
    /\ ~submits[1].include_risk_assessment

\* the position of a status in the order Queued, Running, {Completed,
\* Failed}
StatusRank(status) ==
    CASE status = "queued" -> 1
      [] status = "running" -> 2
      [] OTHER -> 3

(* C17: the status of the live job held by the client never regresses:     *)
(* whatever status responses the poller applies, a step that leaves        *)
(* analysisStatus on the same job does not move its status to an earlier   *)
(* position in the order Queued, Running, {Completed, Failed}.             *)
C17_StatusMonotonic ==
    [][(/\ analysisStatus # NoStatus
        /\ analysisStatus' # NoStatus
        /\ analysisStatus'.id = analysisStatus.id)
         => StatusRank(analysisStatus'.status)
              >= StatusRank(analysisStatus.status)]_vars

(* C17, amended: the client stores each status response of the live chain  *)
(* as it arrives, so the status of the live job regresses only when the    *)
(* backend's responses do: a step that moves analysisStatus of the same    *)
(* job to an earlier position is the live chain of the current job         *)
(* applying a status response that reports that earlier status.            *)
C17_StatusFollowsResponses ==
    [][(/\ analysisStatus # NoStatus
        /\ analysisStatus' # NoStatus
        /\ analysisStatus'.id = analysisStatus.id
        /\ StatusRank(analysisStatus'.status)
             < StatusRank(analysisStatus.status))
         => /\ lastEvent'.kind = "status"
            /\ ~lastEvent'.cancelled
            /\ lastEvent'.msg.kind = "status"
            /\ analysisStatus' = lastEvent'.msg.status
            /\ chains[lastEvent'.chain].job = analysisId]_vars

\* the backend answered 'queued' for a job whose result had been requested
C17_Witness ==
    /\ lastEvent.kind = "status"
    /\ ~lastEvent.cancelled
    /\ analysisStatus.status = "queued"
    /\ analysisStatus = lastEvent.msg.status
    /\ resultReqs[analysisStatus.id] >= 1

\* the chart is drawn
ChartDrawn == marketPane.kind = "chart"

\* the domain of the pane covers every price of its series
DomainCovers(pane) ==
    /\ \A i \in DOMAIN pane.data :
         /\ pane.domain.yMin <= 20 * pane.data[i].price
         /\ 20 * pane.data[i].price <= pane.domain.yMax
    /\ pane.domain.yMin >= 0

(* C18: for every non-empty sequence of prices the computed domain has     *)
(* yMin <= min(prices) <= max(prices) <= yMax and yMin >= 0.               *)
C18_DomainCoversPrices == ChartDrawn => DomainCovers(marketPane)

(* C18, amended: for every non-empty sequence of prices none of which is   *)
(* negative, the computed domain has yMin <= min(prices) <= max(prices)    *)
(* <= yMax and yMin >= 0.                                                  *)
C18_DomainCoversNonNegativePrices ==
    (/\ ChartDrawn
     /\ \A i \in DOMAIN marketPane.data : marketPane.data[i].price >= 0)
      => DomainCovers(marketPane)

\* a series from 0 to MaxPrice: the lower end is floored at zero
C18_Witness ==
    /\ ChartDrawn
    /\ marketPane.data = <<ChartPoint(0), ChartPoint(MaxPrice)>>
    /\ marketPane.domain = Domain(0, 22 * MaxPrice)

(* C19: for every non-empty sequence of prices that are all equal, the     *)
(* computed domain has yMax strictly greater than yMin.                    *)
C19_FlatSeriesHasHeight ==
    (/\ ChartDrawn
     /\ \A i, j \in DOMAIN marketPane.data :
          marketPane.data[i].price = marketPane.data[j].price)
      => marketPane.domain.yMax > marketPane.domain.yMin

(* C19, amended: for every non-empty sequence of prices that are all equal *)
(* and positive, the computed domain has yMax strictly greater than yMin.  *)
C19_FlatPositiveSeriesHasHeight ==
    (/\ ChartDrawn
     /\ \A i, j \in DOMAIN marketPane.data :
          marketPane.data[i].price = marketPane.data[j].price
     /\ \A i \in DOMAIN marketPane.data : marketPane.data[i].price > 0)
      => marketPane.domain.yMax > marketPane.domain.yMin

\* a flat series at MaxPrice: 5% of the price on either side
C19_Witness ==
    /\ ChartDrawn
    /\ marketPane.data = <<ChartPoint(MaxPrice), ChartPoint(MaxPrice)>>
    /\ marketPane.domain = Domain(19 * MaxPrice, 21 * MaxPrice)

(* C20: the domain is never computed for an empty series: a drawn chart    *)
(* has at least one point and a domain that is not NaN, and while the      *)
(* chart data is loading or empty the market tab shows the loading note,   *)
(* the 'no chart data' note or the empty state of the chart.               *)
C20_NoDomainOfEmptySeries ==
    /\ ChartDrawn
         => /\ marketPane.data # <<>>
            /\ marketPane.data = marketChartData
            /\ ~marketPane.domain.nan
    /\ (marketPane # Hidden /\ (isLoadingChart \/ marketChartData = <<>>))
         => marketPane.kind \in {"loading", "noChartData", "chart-empty"}

\* the fetch delivered no data and the market tab is open
C20_Witness ==
    /\ props.symbol
    /\ loadMarketData = "idle"
    /\ ~isLoadingChart
    /\ marketChartData = <<>>
    /\ marketPane.kind = "noChartData"

\* fetchStockData got a parsed body from the provider
CandleDelivered == fetched.called /\ candle.kind = "http200"

(* C21: for a provider response whose status flag is not "ok", or whose    *)
(* close-price array is missing or empty, fetchStockData resolves with the *)
(* empty sequence of chart points; nothing is thrown, inside or outside.   *)
C21_NoDataIsEmpty ==
    (/\ CandleDelivered
     /\ \/ candle.body.s # "ok"
        \/ ~candle.body.c.present
        \/ candle.body.c.items = <<>>)
      => /\ fetched = Returned(<<>>)
         /\ tryFetch(candle) = Returned(<<>>)

\* status "no_data" although all three arrays hold a candle
C21_Witness ==
    /\ CandleDelivered
    /\ candle.body.s = "no_data"
    /\ Len(candle.body.c.items) = 1
    /\ Len(candle.body.t.items) = 1
    /\ Len(candle.body.v.items) = 1
    /\ fetched = Returned(<<>>)

\* the body holds n candles: status "ok" and n entries in each of c, t, v
HoldsCandles(data, n) ==
    /\ data.s = "ok"
    /\ data.c.present /\ Len(data.c.items) = n
    /\ data.t.present /\ Len(data.t.items) = n
    /\ data.v.present /\ Len(data.v.items) = n

(* C22: for a provider response with status "ok" and n >= 1 candles,       *)
(* fetchStockData returns exactly n chart points in the provider's index   *)
(* order; point i has price c[i], volume v[i] and the calendar day of      *)
(* t[i] as its date.                                                       *)
C22_OnePointPerCandle ==
    \A n \in 1..MaxPoints :
        (CandleDelivered /\ HoldsCandles(candle.body, n))
          => /\ ~fetched.threw
             /\ Len(fetched.data) = n
             /\ \A i \in 1..n :
                  /\ fetched.data[i].price = candle.body.c.items[i]
                  /\ fetched.data[i].volume = <<candle.body.v.items[i]>>
                  /\ fetched.data[i].date
                       = candle.body.t.items[i] \div SecondsPerDay

\* two candles of different days, prices and volumes
C22_Witness ==
    /\ CandleDelivered
    /\ HoldsCandles(candle.body, 2)
    /\ candle.body.c.items = <<2, 1>>
    /\ candle.body.t.items = <<SecondsPerDay - 1, SecondsPerDay>>
    /\ candle.body.v.items = <<5, 0>>
    /\ fetched.data = <<[date |-> 0, price |-> 2, volume |-> <<5>>],
                        [date |-> 1, price |-> 1, volume |-> <<0>>]>>

\* a live chain is told that its job is queued or running
StillInProgress(e) ==
    /\ e.kind = "status"
    /\ ~e.cancelled
    /\ e.msg.kind = "status"
    /\ e.msg.status.status \in {"queued", "running"}

(* C28: when a live chain receives the status queued or running, polling    *)
(* goes on: isSubmitting is true before and after, error and               *)
(* analysisResult are unchanged, no result request is issued, and the      *)
(* chain arms one timer for its next status check, no other chain being    *)
(* touched.                                                                *)
C28_PollingContinues ==
    [][StillInProgress(lastEvent') =>
          /\ isSubmitting /\ isSubmitting'
          /\ error' = error
          /\ analysisResult' = analysisResult
          /\ resultReqs' = resultReqs
          /\ chains[lastEvent'.chain].pc = "status"
          /\ chains' = [chains EXCEPT ![lastEvent'.chain].pc = "timer"]]_vars

(* C29: while a POST /analysis is in flight, nothing of the previous job   *)
(* is in the slot: analysisId, analysisStatus, analysisResult and error    *)
(* are cleared and isSubmitting is true, from the step that issues the     *)
(* POST on.                                                                *)
C29_SlotReplaced ==
    submits # <<>> =>
        /\ analysisId = NoJob
        /\ analysisStatus = NoStatus
        /\ analysisResult = NoResult
        /\ error = NoError
        /\ isSubmitting

\* a submission just started while a chain of the previous job is still
\* waiting for an answer or a timer
C29_Witness ==
    /\ lastEvent.kind = "handleSubmit"
    /\ submits # <<>>
    /\ \E c \in ChainIds : chains[c].pc # "done"

\* the chains that issue a status request in a step from chains ch to
\* chains ch2: poll() has just called getAnalysisStatus
StatusRequested(ch, ch2) ==
    {c \in DOMAIN ch2 :
        ch2[c].pc = "status" /\ (c \in DOMAIN ch => ch[c].pc # "status")}

(* C30: no status request is issued while analysisId is null, and the step  *)
(* that gives analysisId a job starts a chain for that job whose first     *)
(* status request is issued in the same step, no timer being armed first.  *)
C30_IdleUntilJob ==
    [][/\ StatusRequested(chains, chains') # {} => analysisId' # NoJob
       /\ (analysisId' # NoJob /\ analysisId' # analysisId) =>
              /\ Len(chains') = Len(chains) + 1
              /\ StatusRequested(chains, chains') = {Len(chains')}
              /\ chains'[Len(chains')].job = analysisId'
              /\ ~chains'[Len(chains')].isCancelled]_vars

(* C31: a stored analysisResult is the answer to the result request for    *)
(* the job that analysisId holds, and a stored analysisStatus is a status  *)
(* of that job; in particular both are null while analysisId is null.      *)
C31_SlotBelongsToCurrentJob ==
    /\ analysisResult # NoResult =>
           analysisId # NoJob /\ analysisResult.id = analysisId
    /\ analysisStatus # NoStatus =>
           analysisId # NoJob /\ analysisStatus.id = analysisId

\* the result of the second job is stored while a chain of the first job,
\* cancelled, exists
C31_Witness ==
    /\ analysisResult # NoResult
    /\ analysisId = 2
    /\ \E c \in ChainIds : chains[c].job = 1 /\ chains[c].isCancelled

(* C32: a job has one outcome: analysisResult and error are never both     *)
(* set, and no step records an error while a result is stored.             *)
C32_OneOutcome ==
    [][/\ ~(analysisResult' # NoResult /\ error' # NoError)
       /\ (analysisResult # NoResult /\ analysisResult' = analysisResult)
              => error' = NoError]_vars

(* C33: a chain that is not cancelled comes to its end when every request  *)
(* is answered, every timer fires and the backend reports completed or     *)
(* failed at some time: it then waits for nothing, isSubmitting is false   *)
(* and analysisResult or error is set.                                     *)
C33_PollingTerminates ==
    \A c \in 1..MaxChains :
        (c \in ChainIds /\ ~chains[c].isCancelled)
            ~> (c \in ChainIds /\
                  \/ chains[c].isCancelled
                  \/ /\ chains[c].pc = "done"
                     /\ ~isSubmitting
                     /\ (analysisResult # NoResult \/ error # NoError))

\* a live chain has just stored the result and ended
C33_Witness ==
    /\ lastEvent.kind = "result"
    /\ ~lastEvent.cancelled
    /\ chains[lastEvent.chain].pc = "done"
    /\ analysisResult # NoResult
    /\ ~isSubmitting

\* close prices come with a time or a volume array that is missing or of
\* another length
Malformed(data) ==
    /\ data.s = "ok"
    /\ data.c.present /\ Len(data.c.items) > 0
    /\ \/ ~data.t.present \/ ~data.v.present
       \/ Len(data.t.items) # Len(data.c.items)
       \/ Len(data.v.items) # Len(data.c.items)

\* the time array is missing or shorter than the close prices, or the
\* volume array is missing
Unusable(data) ==
    /\ data.s = "ok"
    /\ data.c.present /\ Len(data.c.items) > 0
    /\ \/ ~data.t.present \/ ~data.v.present
       \/ Len(data.t.items) < Len(data.c.items)

\* loadMarketData has run to its end, or was never started
FlagReset == loadMarketData = "idle" => ~isLoadingChart

(* C34: the market-data fetch never throws to its caller; a non-2xx        *)
(* answer, a network error, an unparsable body and malformed parallel      *)
(* arrays give the empty sequence; and isLoadingChart is false once        *)
(* loadMarketData has run to its end.                                      *)
C34_FetchNeverFails ==
    /\ FlagReset
    /\ fetched.called =>
          /\ ~fetched.threw
          /\ (candle.kind # "http200" \/ Malformed(candle.body))
                => fetched.data = <<>>

(* C34, amended: the same, the arrays that give the empty sequence being   *)
(* a missing or too short time array and a missing volume array; every     *)
(* other answer gives the empty sequence or one point for each close       *)
(* price, never fewer.                                                     *)
C34_FetchFailsToEmpty ==
    /\ FlagReset
    /\ fetched.called =>
          /\ ~fetched.threw
          /\ (candle.kind # "http200" \/ Unusable(candle.body))
                => fetched.data = <<>>
          /\ (candle.kind = "http200" /\ fetched.data # <<>>)
                => Len(fetched.data) = Len(candle.body.c.items)
          /\ loadMarketData = "idle" => marketChartData = fetched.data

\* two close prices with one time stamp: nothing is drawn and the flag is
\* reset
C34_Witness ==
    /\ props.mounted
    /\ fetched.called
    /\ candle.kind = "http200"
    /\ candle.body.s = "ok"
    /\ candle.body.c.present /\ Len(candle.body.c.items) = 2
    /\ candle.body.t.present /\ Len(candle.body.t.items) = 1
    /\ fetched.data = <<>>
    /\ loadMarketData = "idle"
    /\ ~isLoadingChart

-----------------------------------------------------------------------------
(* utils/formatReport.ts *)

\* the lines of s, none of which starts with one of the markers
NoMarkerAtLineStart(s) ==
    \A i \in DOMAIN s :
        (i = 1 \/ s[i - 1] = "\n") =>
            /\ s[i] # "#"
            /\ ~(i < Len(s) /\ s[i] = "*" /\ s[i + 1] = "*")
            /\ runLen(s, i, RuleChars) < 3

(* C23: cleaning a cleaned text changes nothing: clean(clean(x)) equals     *)
(* clean(x) for every text x.                                              *)
C23_CleanIdempotent ==
    formatted.called => cleanMarkdown(formatted.clean) = formatted.clean

(* C24: no line of clean(text) starts with '#', with '**' or with a run of  *)
(* three or more rule characters.                                          *)
C24_NoMarkerLeft ==
    formatted.called => NoMarkerAtLineStart(formatted.clean)

\* the heading lines of lines: the lines of 1 to 6 '#' followed by white
\* space, and with titled, by at least one more character
Headings(lines, titled) ==
    {k \in DOMAIN lines :
        LET h == runLen(lines[k], 1, {"#"})
        IN /\ h >= 1 /\ h <= 6
           /\ Len(lines[k]) > h /\ lines[k][h + 1] \in Whitespace
           /\ titled => Len(lines[k]) >= h + 2}

\* the section of the heading line k, H being the heading lines: the
\* heading's text without its marker and surrounding white space, and the
\* cleaned text of the lines between k and the next heading line
SectionAt(lines, H, k) ==
    LET h == runLen(lines[k], 1, {"#"})
        next == IF \E n \in H : n > k
                THEN CHOOSE n \in H : n > k /\ \A g \in H : g > k => n <= g
                ELSE Len(lines) + 1
    IN [title |-> trim(SubSeq(lines[k], h + 1, Len(lines[k]))),
        content |-> cleanMarkdown(IF next > k + 1
                                  THEN join(SubSeq(lines, k + 1, next - 1))
                                           \o <<"\n">>
                                  ELSE <<>>)]

\* sections holds sections of heading lines of H, in the order of the lines
InSourceOrder(lines, H, sections) ==
    \E f \in [1..Len(sections) -> H] :
        /\ \A i, j \in 1..Len(sections) : i < j => f[i] < f[j]
        /\ \A i \in 1..Len(sections) : sections[i] = SectionAt(lines, H, f[i])

\* the sections of all heading lines of H, in the order of the lines
AllSections(lines, H) ==
    [i \in 1..Cardinality(H) |->
        SectionAt(lines, H,
                  CHOOSE k \in H : Cardinality({g \in H : g <= k}) = i)]

C26_PreambleDiscarded ==
    formatted.called =>
        \A titled \in BOOLEAN :
            LET lines == split(reportText)
                H == Headings(lines, titled)
                first == CHOOSE k \in H : \A g \in H : k <= g
            IN IF H = {} THEN formatted.sections = <<>>
               ELSE formatted.sections =
                      parseReportSections(
                          join(SubSeq(lines, first, Len(lines))))

\* a text whose first line is 'a', with a section further down
C26_Witness ==
    /\ formatted.called
    /\ formatted.sections # <<>>
    /\ split(reportText)[1] = <<"a">>

====
